---- MODULE Spec2Model ----
(***************************************************************************)
(* A model of the decision engine of nof1-tracker:                         *)
(*   - FuturesCapitalManager (src/src/services/futures-capital-manager.ts) *)
(*   - RiskManager           (src/unnamed/part_001)                        *)
(*   - the order-history ledger and the follow cycle (reconciliation and   *)
(*     auto-refollow), whose code is not part of the source tree and is    *)
(*     modelled from the design document.                                  *)
(*                                                                         *)
(* Numbers.  The program computes on IEEE doubles.  Amounts of money are   *)
(* modelled on a grid: the integer a stands for the amount a / Unit, so    *)
(* with Unit = 2 the model holds whole and half amounts.  Arithmetic on    *)
(* them is exact; a quotient that is not on the grid (a ratio, a           *)
(* percentage, a quantity) is kept as a fraction [num, den].               *)
(* An optional argument is <<>> when omitted and <<v>> when supplied.      *)
(***************************************************************************)
EXTENDS Integers, Sequences, FiniteSets, TLC

VARIABLES
    defaultTotalMargin, \* FuturesCapitalManager.defaultTotalMargin (grid)
    pc,                 \* position of the caller of the capital manager
    call,               \* the operation called last and its arguments
    result,             \* the CapitalAllocationResult it returned
    validation,         \* what the validate* call on that result returned
    riskPc,             \* position of the caller of the risk manager
    riskCall,           \* the RiskManager method called last, its arguments
    riskResult,         \* what it returned, or that it threw
    followPc,           \* "start" until the follow command is configured
    options,            \* the follow options: autoRefollow, detectManualClose
    signal,             \* signal source: symbol -> entry_order_id, 0 = none
    lastOid,            \* signal source: the last entry_order_id it issued
    broker,             \* exchange: symbol -> the account holds a position
    ledger,             \* OrderHistoryLedger: the three record collections
    orders,             \* exchange: the orders placed, in order
    polls,              \* number of reconciliation cycles run
    lastPoll            \* what the last cycle classified and did

capitalVars == <<defaultTotalMargin, pc, call, result, validation>>

riskVars == <<riskPc, riskCall, riskResult>>

followVars ==
    <<followPc, options, signal, lastOid, broker, ledger, orders, polls, lastPoll>>

----------------------------------------------------------------------------
(* Bounds of the model *)

Unit == 2
MaxMargin == 2
MaxTotalMargin == 6
LargeTotalMargin == 25
MaxCap == 5
MaxBalance == 3
MaxFixed == 3
MaxDefault == 2
MaxPrice == 5
TolStep == 25
MaxTolSteps == 4
MaxPlanQuantity == 2
MaxOid == 2
MaxPolls == 3

----------------------------------------------------------------------------
(* Helpers for numbers and optional arguments *)

Whole(n) == n * Unit

\* Math.floor of the amount num / den (den > 0, both on the grid scale),
\* as an amount on the grid
FloorAmount(num, den) == (num \div (den * Unit)) * Unit

Math_floor(a) == FloorAmount(a, 1)

\* Math.floor of a double that fell just below the exact num / den
FloorAmountShort(num, den) == FloorAmount(num - 1, den)

Abs(n) == IF n < 0 THEN 0 - n ELSE n

Omitted == <<>>

Opt(S) == {Omitted} \cup {<<v>> : v \in S}

IsSupplied(o) == o # Omitted

\* JavaScript truthiness of an optional number: undefined and 0 are falsy
Truthy(o) == IsSupplied(o) /\ o[1] # 0

SetMin(S) == CHOOSE m \in S : \A x \in S : m <= x

RECURSIVE SumSeq(_)
SumSeq(s) == IF s = <<>> THEN 0 ELSE Head(s) + SumSeq(Tail(s))

\* Array.prototype.slice(0, k): a negative k counts from the end
Slice0(s, k) ==
    LET stop == IF k < 0 THEN (IF Len(s) + k < 0 THEN 0 ELSE Len(s) + k)
                ELSE (IF k > Len(s) THEN Len(s) ELSE k)
    IN  SubSeq(s, 1, stop)

RECURSIVE GCD(_, _)
GCD(a, b) == IF b = 0 THEN a ELSE GCD(b, a % b)

IsPowerOfTwo(n) == \E k \in 0..30 : n = 2 ^ k

\* num / den (both > 0) is a binary fraction, which a double holds exactly
IsBinaryFraction(num, den) == IsPowerOfTwo(den \div GCD(num, den))

RECURSIVE Pow10(_)
Pow10(p) == IF p = 0 THEN 1 ELSE 10 * Pow10(p - 1)

----------------------------------------------------------------------------
(* FuturesCapitalManager: the inputs *)

\* A symbol is its base name and whether the string carries the USDT suffix
Symbol(base, usdt) == [base |-> base, usdt |-> usdt]

\* The positions a signal snapshot can hold, one per symbol (Position of
\* scripts/analyze-api: the fields the capital manager reads)
Profiles ==
    { [symbol |-> Symbol("XRP", TRUE),   quantity |-> 1,  leverage |-> 2,
       current_price |-> 3],
      [symbol |-> Symbol("ADA", FALSE),  quantity |-> -2, leverage |-> 3,
       current_price |-> 2],
      [symbol |-> Symbol("PEPE", FALSE), quantity |-> 0,  leverage |-> 1,
       current_price |-> 1] }

Position(profile, margin) ==
    [symbol |-> profile.symbol, margin |-> margin,
     leverage |-> profile.leverage, quantity |-> profile.quantity,
     current_price |-> profile.current_price]

Positions == {Position(pr, m) : pr \in Profiles, m \in 0..MaxMargin}

\* Lists of positions with pairwise different symbols
PositionLists ==
    UNION { {s \in [1..n -> Positions] :
                \A i, j \in 1..n : i # j => s[i].symbol # s[j].symbol}
            : n \in 0..Cardinality(Profiles) }

\* The budgets a caller passes: the small ones, and a large whole one
TotalMarginArgs == Opt((-1..MaxTotalMargin) \cup {Whole(LargeTotalMargin)})
BalanceArgs == Opt(-1..MaxBalance)
CapArgs == Opt(-1..MaxCap)
FixedAmounts == -1..MaxFixed

----------------------------------------------------------------------------
(* FuturesCapitalManager: the operations *)

EmptyResult(totalOriginalMargin) ==
    [totalOriginalMargin |-> totalOriginalMargin,
     totalAllocatedMargin |-> 0,
     totalNotionalValue |-> 0,
     allocations |-> <<>>]

NoResult == [totalOriginalMargin |-> -1, totalAllocatedMargin |-> -1,
             totalNotionalValue |-> -1, allocations |-> <<>>]

\* Mutant of ValidPositions: the smallest margins are filtered out too
ValidPositions_AboveOne(positions) == SelectSeq(positions, LAMBDA p : p.margin > 1)

\* positions.filter(p => p.margin > 0)
ValidPositions(positions) == SelectSeq(positions, LAMBDA p : p.margin > 0)

Margins(positions) == [i \in 1..Len(positions) |-> positions[i].margin]

AllocatedMargins(allocations) ==
    [i \in 1..Len(allocations) |-> allocations[i].allocatedMargin]

NotionalValues(allocations) ==
    [i \in 1..Len(allocations) |-> allocations[i].notionalValue]

Side(position) == IF position.quantity > 0 THEN "BUY" ELSE "SELL"

quantityPrecisionMap ==
    [BTC |-> 3, ETH |-> 3, BNB |-> 2, XRP |-> 1, ADA |-> 0, DOGE |-> 0,
     SOL |-> 2, AVAX |-> 2, MATIC |-> 1, DOT |-> 2, LINK |-> 2, UNI |-> 2]

DefaultPrecision == 3

\* symbol.endsWith('USDT') ? symbol : `${symbol}USDT`
BinanceSymbol(symbol) ==
    IF symbol.usdt THEN symbol ELSE Symbol(symbol.base, TRUE)

\* quantityPrecisionMap[binanceSymbol] || 3: a missing entry is undefined,
\* and so falsy, and so is an entry of 0
Precision(symbol) ==
    LET binanceSymbol == BinanceSymbol(symbol)
        entry == IF binanceSymbol.base \in DOMAIN quantityPrecisionMap
                 THEN <<quantityPrecisionMap[binanceSymbol.base]>>
                 ELSE Omitted
    IN  IF Truthy(entry) THEN entry[1] ELSE DefaultPrecision

\* Math.round(x) is floor(x + 1/2); the quantity is the fraction num / den
roundQuantity(num, den, symbol) ==
    LET factor == Pow10(Precision(symbol))
    IN  [num |-> (2 * num * factor + den) \div (2 * den), den |-> factor]

\* totalMargin || this.defaultTotalMargin, then the clamp to the balance
TotalMarginToUse(totalMargin, availableBalance, dflt) ==
    LET requested == IF Truthy(totalMargin) THEN totalMargin[1] ELSE dflt
    IN  IF Truthy(availableBalance) /\ requested > availableBalance[1]
        THEN availableBalance[1]
        ELSE requested

\* The arithmetic is on doubles.  allocationRatio = margin / total is rounded
\* unless it is a binary fraction, and totalMarginToUse * allocationRatio,
\* rounded again, can then come out just below a product whose exact value
\* is a whole number, so that Math.floor returns one less; the same holds
\* for allocatedMargin * leverage.  A product that is exact stays exact when
\* it is multiplied by a power of two.  Which of the two a call gives
\* depends on the digits of the inputs: short says where it fell below.
ShortFlags == [margin : BOOLEAN, notional : BOOLEAN]

MayFallShort(position, totalMarginToUse, totalOriginalMargin, short) ==
    LET num == totalMarginToUse * position.margin
        den == totalOriginalMargin * Unit
        rounded == /\ totalMarginToUse # 0
                   /\ ~ IsBinaryFraction(position.margin, totalOriginalMargin)
        marginWhole == num % den = 0
        notionalWhole == (num * position.leverage) % den = 0
    IN  /\ short.margin => (rounded /\ marginWhole)
        /\ short.notional => (rounded /\ notionalWhole)
        /\ (marginWhole /\ ~ short.margin) => ~ short.notional
        /\ (short.margin /\ IsPowerOfTwo(position.leverage)) => short.notional

\* Mutant of ProportionalAllocation: the ratio is taken of the budget
ProportionalAllocation_OfBudget(position, totalMarginToUse, totalOriginalMargin, short) ==
    LET num == totalMarginToUse * position.margin
        den == totalOriginalMargin
    IN  [symbol |-> position.symbol,
         originalMargin |-> position.margin,
         allocatedMargin |-> IF short.margin THEN FloorAmountShort(num, den)
                             ELSE FloorAmount(num, den),
         notionalValue |->
             IF short.notional
             THEN FloorAmountShort(num * position.leverage, den)
             ELSE FloorAmount(num * position.leverage, den),
         adjustedQuantity |->
             roundQuantity(num * position.leverage,
                           den * Unit * position.current_price,
                           position.symbol),
         allocationRatio |-> [num |-> position.margin,
                              den |-> Abs(totalMarginToUse) + 1],
         leverage |-> position.leverage,
         side |-> Side(position)]

\* One entry of allocateMargin's map: the budget times margin / total
ProportionalAllocation(position, totalMarginToUse, totalOriginalMargin, short) ==
    LET num == totalMarginToUse * position.margin
        den == totalOriginalMargin
    IN  [symbol |-> position.symbol,
         originalMargin |-> position.margin,
         allocatedMargin |-> IF short.margin THEN FloorAmountShort(num, den)
                             ELSE FloorAmount(num, den),
         notionalValue |->
             IF short.notional
             THEN FloorAmountShort(num * position.leverage, den)
             ELSE FloorAmount(num * position.leverage, den),
         adjustedQuantity |->
             roundQuantity(num * position.leverage,
                           den * Unit * position.current_price,
                           position.symbol),
         allocationRatio |-> [num |-> position.margin, den |-> den],
         leverage |-> position.leverage,
         side |-> Side(position)]

\* The outcomes of the roundings one call of allocateMargin can meet
ShortChoices(positions, totalMargin, availableBalance, dflt) ==
    LET totalMarginToUse == TotalMarginToUse(totalMargin, availableBalance, dflt)
        validPositions == ValidPositions(positions)
        totalOriginalMargin == SumSeq(Margins(validPositions))
    IN  {short \in [1..Len(validPositions) -> ShortFlags] :
            \A i \in 1..Len(validPositions) :
                MayFallShort(validPositions[i], totalMarginToUse,
                             totalOriginalMargin, short[i])}

allocateMargin(positions, totalMargin, availableBalance, dflt, short) ==
    LET totalMarginToUse == TotalMarginToUse(totalMargin, availableBalance, dflt)
        validPositions == ValidPositions(positions)
        totalOriginalMargin == SumSeq(Margins(validPositions))
        allocations ==
            [i \in 1..Len(validPositions) |->
                ProportionalAllocation(validPositions[i], totalMarginToUse,
                                       totalOriginalMargin, short[i])]
    IN  IF Len(validPositions) = 0 THEN EmptyResult(0)
        ELSE [totalOriginalMargin |-> totalOriginalMargin,
              totalAllocatedMargin |-> SumSeq(AllocatedMargins(allocations)),
              totalNotionalValue |-> SumSeq(NotionalValues(allocations)),
              allocations |-> allocations]

\* Math.min(maxTotalMargin || Infinity, availableBalance || Infinity,
\*          fixedAmountPerCoin * validPositions.length)
ActualTotalMargin(fixedAmountPerCoin, maxTotalMargin, availableBalance, n) ==
    SetMin({fixedAmountPerCoin * n}
           \cup {o[1] : o \in {c \in {maxTotalMargin, availableBalance} : Truthy(c)}})

\* Mutant of MaxCoins: Math.ceil in place of Math.floor
MaxCoins_Ceil(actualTotalMargin, fixedAmountPerCoin) ==
    (actualTotalMargin + fixedAmountPerCoin - 1) \div fixedAmountPerCoin

\* Math.floor(actualTotalMargin / fixedAmountPerCoin), fixedAmountPerCoin > 0
MaxCoins(actualTotalMargin, fixedAmountPerCoin) ==
    actualTotalMargin \div fixedAmountPerCoin

\* One entry of allocateFixedMargin's map
FixedAllocation(position, fixedAmountPerCoin, funded) ==
    [symbol |-> position.symbol,
     originalMargin |-> position.margin,
     allocatedMargin |-> Math_floor(fixedAmountPerCoin),
     notionalValue |-> Math_floor(fixedAmountPerCoin * position.leverage),
     adjustedQuantity |->
         roundQuantity(fixedAmountPerCoin * position.leverage,
                       Unit * position.current_price, position.symbol),
     allocationRatio |-> [num |-> fixedAmountPerCoin,
                          den |-> fixedAmountPerCoin * funded],
     leverage |-> position.leverage,
     side |-> Side(position)]

allocateFixedMargin(positions, fixedAmountPerCoin, maxTotalMargin, availableBalance) ==
    LET validPositions == ValidPositions(positions)
        actualTotalMargin ==
            ActualTotalMargin(fixedAmountPerCoin, maxTotalMargin,
                              availableBalance, Len(validPositions))
        maxCoins == MaxCoins(actualTotalMargin, fixedAmountPerCoin)
        positionsToAllocate == Slice0(validPositions, maxCoins)
        allocations ==
            [i \in 1..Len(positionsToAllocate) |->
                FixedAllocation(positionsToAllocate[i], fixedAmountPerCoin,
                                Len(positionsToAllocate))]
    IN  IF Len(validPositions) = 0 \/ fixedAmountPerCoin <= 0
        THEN EmptyResult(0)
        ELSE IF Len(positionsToAllocate) = 0
        THEN EmptyResult(SumSeq(Margins(validPositions)))
        ELSE [totalOriginalMargin |-> SumSeq(Margins(positionsToAllocate)),
              totalAllocatedMargin |-> SumSeq(AllocatedMargins(allocations)),
              totalNotionalValue |-> SumSeq(NotionalValues(allocations)),
              allocations |-> allocations]

\* validateFixedAllocation: no entry differs from the expected amount
validateFixedAllocation(res, expectedFixedAmount) ==
    \A i \in 1..Len(res.allocations) :
        ~ (res.allocations[i].allocatedMargin # expectedFixedAmount)

ConflictError == "Cannot specify both totalMargin and fixedAmountPerCoin"
FixedAmountError == "fixedAmountPerCoin must be greater than 0"
TotalMarginError == "totalMargin must be greater than 0"
NoError == ""

\* Mutant of validateAllocationOptions: the conflict check is missing
validateAllocationOptions_NoConflict(totalMargin, fixedAmountPerCoin) ==
    IF IsSupplied(fixedAmountPerCoin) /\ fixedAmountPerCoin[1] <= 0
    THEN [isValid |-> FALSE, error |-> FixedAmountError]
    ELSE IF IsSupplied(totalMargin) /\ totalMargin[1] <= 0
    THEN [isValid |-> FALSE, error |-> TotalMarginError]
    ELSE [isValid |-> TRUE, error |-> NoError]

validateAllocationOptions(totalMargin, fixedAmountPerCoin) ==
    IF Truthy(totalMargin) /\ Truthy(fixedAmountPerCoin)
    THEN [isValid |-> FALSE, error |-> ConflictError]
    ELSE IF IsSupplied(fixedAmountPerCoin) /\ fixedAmountPerCoin[1] <= 0
    THEN [isValid |-> FALSE, error |-> FixedAmountError]
    ELSE IF IsSupplied(totalMargin) /\ totalMargin[1] <= 0
    THEN [isValid |-> FALSE, error |-> TotalMarginError]
    ELSE [isValid |-> TRUE, error |-> NoError]

\* Sum of the allocation ratios; the entries of one result share a denominator
RatioSum(allocations) ==
    IF Len(allocations) = 0 THEN [num |-> 0, den |-> 1]
    ELSE [num |-> SumSeq([i \in 1..Len(allocations) |->
                              allocations[i].allocationRatio.num]),
          den |-> allocations[1].allocationRatio.den]

MarginTolerance == 10

\* validateAllocation: |total - default| > 10 fails, |sum of ratios - 1| >
\* 0.001 fails
validateAllocation(res, dflt) ==
    LET difference == Abs(res.totalAllocatedMargin - dflt)
        totalRatio == RatioSum(res.allocations)
    IN  IF difference > Whole(MarginTolerance) THEN FALSE
        ELSE IF Abs(totalRatio.num - totalRatio.den) * 1000 > totalRatio.den
        THEN FALSE
        ELSE TRUE

----------------------------------------------------------------------------
(* FuturesCapitalManager: the state machine.  A caller calls one operation *)
(* (pc = "idle"), may validate the result it got, and returns.             *)

DefaultTotalMarginInit == 10

NoCall ==
    [op |-> "none", positions |-> <<>>, totalMargin |-> Omitted,
     availableBalance |-> Omitted, fixedAmountPerCoin |-> Omitted,
     maxTotalMargin |-> Omitted, margin |-> Omitted, value |-> Omitted,
     threw |-> FALSE, error |-> NoError, short |-> <<>>]

NoValidation ==
    [op |-> "none", expected |-> Omitted, isValid |-> FALSE, error |-> NoError]

otherThanCapital == <<riskVars, followVars>>

CapitalInit ==
    /\ defaultTotalMargin = Whole(DefaultTotalMarginInit)
    /\ pc = "idle"
    /\ call = NoCall
    /\ result = NoResult
    /\ validation = NoValidation

AllocateMargin ==
    /\ UNCHANGED otherThanCapital
    /\ pc = "idle"
    /\ \E positions \in PositionLists, totalMargin \in TotalMarginArgs,
          availableBalance \in BalanceArgs :
          \E short \in ShortChoices(positions, totalMargin, availableBalance,
                                    defaultTotalMargin) :
              /\ call' = [NoCall EXCEPT !.op = "allocateMargin",
                                        !.positions = positions,
                                        !.totalMargin = totalMargin,
                                        !.availableBalance = availableBalance,
                                        !.short = short]
              /\ result' = allocateMargin(positions, totalMargin,
                                          availableBalance, defaultTotalMargin,
                                          short)
    /\ pc' = "allocated"
    /\ UNCHANGED <<defaultTotalMargin, validation>>

AllocateFixedMargin ==
    /\ UNCHANGED otherThanCapital
    /\ pc = "idle"
    /\ \E positions \in PositionLists, fixedAmountPerCoin \in FixedAmounts,
          maxTotalMargin \in CapArgs, availableBalance \in BalanceArgs :
          /\ call' = [NoCall EXCEPT !.op = "allocateFixedMargin",
                                    !.positions = positions,
                                    !.fixedAmountPerCoin = <<fixedAmountPerCoin>>,
                                    !.maxTotalMargin = maxTotalMargin,
                                    !.availableBalance = availableBalance]
          /\ result' = allocateFixedMargin(positions, fixedAmountPerCoin,
                                           maxTotalMargin, availableBalance)
    /\ pc' = "allocated"
    /\ UNCHANGED <<defaultTotalMargin, validation>>

GetDefaultTotalMargin ==
    /\ UNCHANGED otherThanCapital
    /\ pc = "idle"
    /\ call' = [NoCall EXCEPT !.op = "getDefaultTotalMargin",
                              !.value = <<defaultTotalMargin>>]
    /\ pc' = "done"
    /\ UNCHANGED <<defaultTotalMargin, result, validation>>

MarginError == "Total margin must be positive"

\* Mutant of SetDefaultTotalMargin: the margin is stored unchecked
SetDefaultTotalMargin_Unchecked ==
    /\ UNCHANGED otherThanCapital
    /\ pc = "idle"
    /\ \E margin \in -1..MaxDefault :
          /\ call' = [NoCall EXCEPT !.op = "setDefaultTotalMargin",
                                    !.margin = <<margin>>]
          /\ defaultTotalMargin' = margin
    /\ pc' = "done"
    /\ UNCHANGED <<result, validation>>

\* setDefaultTotalMargin throws on margin <= 0 and stores the margin otherwise
SetDefaultTotalMargin ==
    /\ UNCHANGED otherThanCapital
    /\ pc = "idle"
    /\ \E margin \in -1..MaxDefault :
          /\ call' = [NoCall EXCEPT !.op = "setDefaultTotalMargin",
                                    !.margin = <<margin>>,
                                    !.threw = (margin <= 0),
                                    !.error = IF margin <= 0 THEN MarginError
                                              ELSE NoError]
          /\ defaultTotalMargin' =
                 IF margin <= 0 THEN defaultTotalMargin ELSE margin
    /\ pc' = "done"
    /\ UNCHANGED <<result, validation>>

ValidateAllocation ==
    /\ UNCHANGED otherThanCapital
    /\ pc = "allocated"
    /\ validation' = [NoValidation EXCEPT
                          !.op = "validateAllocation",
                          !.isValid = validateAllocation(result, defaultTotalMargin)]
    /\ pc' = "validated"
    /\ UNCHANGED <<defaultTotalMargin, call, result>>

\* The caller validates the result against the amount it asked for, or
\* against that amount's whole part
ValidateFixedAllocation ==
    /\ UNCHANGED otherThanCapital
    /\ pc = "allocated"
    /\ call.op = "allocateFixedMargin"
    /\ \E expectedFixedAmount \in {call.fixedAmountPerCoin[1],
                                   Math_floor(call.fixedAmountPerCoin[1])} :
          validation' = [NoValidation EXCEPT
                             !.op = "validateFixedAllocation",
                             !.expected = <<expectedFixedAmount>>,
                             !.isValid = validateFixedAllocation(result,
                                                                 expectedFixedAmount)]
    /\ pc' = "validated"
    /\ UNCHANGED <<defaultTotalMargin, call, result>>

ValidateAllocationOptions ==
    /\ UNCHANGED otherThanCapital
    /\ pc = "idle"
    /\ \E totalMargin \in TotalMarginArgs, fixedAmountPerCoin \in Opt(FixedAmounts) :
          /\ call' = [NoCall EXCEPT !.op = "validateAllocationOptions",
                                    !.totalMargin = totalMargin,
                                    !.fixedAmountPerCoin = fixedAmountPerCoin]
          /\ LET r == validateAllocationOptions(totalMargin, fixedAmountPerCoin)
             IN  validation' = [NoValidation EXCEPT
                                    !.op = "validateAllocationOptions",
                                    !.isValid = r.isValid,
                                    !.error = r.error]
    /\ pc' = "validated"
    /\ UNCHANGED <<defaultTotalMargin, result>>

Return ==
    /\ UNCHANGED otherThanCapital
    /\ pc \in {"allocated", "validated", "done"}
    /\ pc' = "idle"
    /\ call' = NoCall
    /\ result' = NoResult
    /\ validation' = NoValidation
    /\ UNCHANGED defaultTotalMargin

----------------------------------------------------------------------------
(* RiskManager: the inputs *)

Sides == {"BUY", "SELL"}

\* side?: "BUY" | "SELL"; the empty string stands for an omitted side
NoSide == ""

EntryPrices == -1..MaxPrice
CurrentPrices == 0..MaxPrice

\* Tolerances, in percent
Tolerances == {k * TolStep : k \in 0..MaxTolSteps}

\* What ConfigManager.getPriceTolerance(symbol) may return, in percent
ConfigTolerances == {k * TolStep : k \in 1..MaxTolSteps}

PlanLeverages == {1, 6, 7, 20, 21}

TradingPlans ==
    [leverage : PlanLeverages, quantity : 1..MaxPlanQuantity, side : Sides]

----------------------------------------------------------------------------
(* RiskManager: the operations.  A percentage is the fraction num / den.   *)

EntryPriceError == "Entry price must be greater than 0"

\* Mutant of Throws: an entry price of 0 is let through
Throws_Negative(entryPrice) == entryPrice < 0

\* if (entryPrice <= 0) throw new Error(...)
Throws(entryPrice) == entryPrice <= 0

\* ((currentPrice - entryPrice) / entryPrice) * 100
calculateDirectionalPriceDifference(entryPrice, currentPrice) ==
    [num |-> (currentPrice - entryPrice) * 100, den |-> entryPrice]

\* Mutant of calculatePriceDifference: the sign is kept
calculatePriceDifference_Signed(entryPrice, currentPrice) ==
    calculateDirectionalPriceDifference(entryPrice, currentPrice)

\* Math.abs of the directional difference
calculatePriceDifference(entryPrice, currentPrice) ==
    LET d == calculateDirectionalPriceDifference(entryPrice, currentPrice)
    IN  [num |-> Abs(d.num), den |-> Abs(d.den)]

\* percentage <= tolerance, percentage <= 0, percentage >= 0 (den > 0)
WithinTolerance(priceDifference, tolerance) ==
    priceDifference.num <= tolerance * priceDifference.den

\* customTolerance || this.configManager.getPriceTolerance(symbol)
ToleranceToUse(customTolerance, configured) ==
    IF Truthy(customTolerance) THEN customTolerance[1] ELSE configured

\* Mutant of FavorableForExecution: the two directions are swapped
FavorableForExecution_Swapped(side, directionalPriceDifference) ==
    IF side # NoSide
    THEN IF side = "BUY" THEN directionalPriceDifference.num >= 0
         ELSE directionalPriceDifference.num <= 0
    ELSE FALSE

\* Mutant of FavorableForExecution: a call without a side is taken as a BUY
FavorableForExecution_Sideless(side, directionalPriceDifference) ==
    IF side = "SELL" THEN directionalPriceDifference.num >= 0
    ELSE directionalPriceDifference.num <= 0

\* BUY: directional <= 0; SELL: directional >= 0; no side: false
FavorableForExecution(side, directionalPriceDifference) ==
    IF side # NoSide
    THEN IF side = "BUY" THEN directionalPriceDifference.num <= 0
         ELSE directionalPriceDifference.num >= 0
    ELSE FALSE

\* Mutant of Reason: a favorable move is reported as such within tolerance too
Reason_FavorableFirst(side, favorableForExecution, withinTolerance) ==
    IF favorableForExecution
    THEN [template |-> "favorable", moved |-> IF side = "BUY" THEN "down" ELSE "up",
          side |-> side]
    ELSE IF withinTolerance
    THEN [template |-> "within", moved |-> "", side |-> NoSide]
    ELSE [template |-> "unfavorable", moved |-> "", side |-> side]

\* The template the reason is built from, and the words it fills in
Reason(side, favorableForExecution, withinTolerance) ==
    IF favorableForExecution /\ ~ withinTolerance
    THEN [template |-> "favorable", moved |-> IF side = "BUY" THEN "down" ELSE "up",
          side |-> side]
    ELSE IF withinTolerance
    THEN [template |-> "within", moved |-> "", side |-> NoSide]
    ELSE [template |-> "unfavorable", moved |-> "", side |-> side]

checkPriceTolerance(entryPrice, currentPrice, side, customTolerance, configured) ==
    LET tolerance == ToleranceToUse(customTolerance, configured)
        priceDifference == calculatePriceDifference(entryPrice, currentPrice)
        directionalPriceDifference ==
            calculateDirectionalPriceDifference(entryPrice, currentPrice)
        withinTolerance == WithinTolerance(priceDifference, tolerance)
        favorableForExecution ==
            FavorableForExecution(side, directionalPriceDifference)
    IN  [entryPrice |-> entryPrice,
         currentPrice |-> currentPrice,
         priceDifference |-> priceDifference,
         directionalPriceDifference |-> directionalPriceDifference,
         tolerance |-> tolerance,
         withinTolerance |-> withinTolerance,
         shouldExecute |-> withinTolerance \/ favorableForExecution,
         favorableForExecution |-> favorableForExecution,
         side |-> side,
         reason |-> Reason(side, favorableForExecution, withinTolerance)]

\* Mutant of checkPriceToleranceLegacy: the check of a BUY position
checkPriceToleranceLegacy_Buy(entryPrice, currentPrice, customTolerance, configured) ==
    checkPriceTolerance(entryPrice, currentPrice, "BUY", customTolerance,
                        configured)

checkPriceToleranceLegacy(entryPrice, currentPrice, customTolerance, configured) ==
    LET tolerance == ToleranceToUse(customTolerance, configured)
        priceDifference == calculatePriceDifference(entryPrice, currentPrice)
        directionalPriceDifference ==
            calculateDirectionalPriceDifference(entryPrice, currentPrice)
        withinTolerance == WithinTolerance(priceDifference, tolerance)
    IN  [entryPrice |-> entryPrice,
         currentPrice |-> currentPrice,
         priceDifference |-> priceDifference,
         directionalPriceDifference |-> directionalPriceDifference,
         tolerance |-> tolerance,
         withinTolerance |-> withinTolerance,
         shouldExecute |-> withinTolerance,
         favorableForExecution |-> FALSE,
         side |-> NoSide,
         reason |-> [template |-> IF withinTolerance THEN "within" ELSE "exceeds",
                     moved |-> "", side |-> NoSide]]

NoPriceTolerance ==
    [entryPrice |-> 0, currentPrice |-> 0,
     priceDifference |-> [num |-> 0, den |-> 1],
     directionalPriceDifference |-> [num |-> 0, den |-> 1],
     tolerance |-> 0, withinTolerance |-> FALSE, shouldExecute |-> FALSE,
     favorableForExecution |-> FALSE, side |-> NoSide,
     reason |-> [template |-> "", moved |-> "", side |-> NoSide]]

BaseScore == 20
LeverageWeight == 10
MaxRiskScore == 100
HighLeverage == 20
HighRiskScore == 80
LossPerUnit == 1000

\* Mutant of calculateRiskScore: the score is not capped
calculateRiskScore_Uncapped(tradingPlan) ==
    BaseScore + tradingPlan.leverage * LeverageWeight

calculateRiskScore(tradingPlan) ==
    LET score == BaseScore + tradingPlan.leverage * LeverageWeight
    IN  IF score < MaxRiskScore THEN score ELSE MaxRiskScore

generateWarnings(tradingPlan, riskScore) ==
    (IF tradingPlan.leverage > HighLeverage
     THEN <<"High leverage detected">> ELSE <<>>)
    \o (IF riskScore > HighRiskScore THEN <<"High risk score">> ELSE <<>>)

assessRisk(tradingPlan) ==
    LET riskScore == calculateRiskScore(tradingPlan)
    IN  [isValid |-> riskScore <= MaxRiskScore,
         riskScore |-> riskScore,
         warnings |-> generateWarnings(tradingPlan, riskScore),
         maxLoss |-> tradingPlan.quantity * LossPerUnit,
         suggestedPositionSize |-> tradingPlan.quantity]

ToleranceWarning == "Price tolerance check failed"

\* The basic assessment with the warning appended when the check failed
\* and isValid and-ed with its verdict
Combine(basicAssessment, failed) ==
    [basicAssessment EXCEPT
        !.warnings = IF failed THEN Append(@, ToleranceWarning) ELSE @,
        !.isValid = @ /\ ~ failed]

assessRiskWithPriceTolerance(tradingPlan, priceTolerance) ==
    Combine(assessRisk(tradingPlan), ~ priceTolerance.withinTolerance)

\* Mutant of assessRiskWithDirectionalPriceTolerance: gates on withinTolerance
assessRiskWithDirectionalPriceTolerance_Within(tradingPlan, priceTolerance) ==
    Combine(assessRisk(tradingPlan), ~ priceTolerance.withinTolerance)

assessRiskWithDirectionalPriceTolerance(tradingPlan, priceTolerance) ==
    Combine(assessRisk(tradingPlan), ~ priceTolerance.shouldExecute)

NoAssessment ==
    [isValid |-> FALSE, riskScore |-> 0, warnings |-> <<>>, maxLoss |-> 0,
     suggestedPositionSize |-> 0]

----------------------------------------------------------------------------
(* RiskManager: the state machine.  The manager keeps no state of its own; *)
(* a caller calls one method (riskPc = "idle") and takes what it returns.  *)

NoPlan == [leverage |-> 0, quantity |-> 0, side |-> NoSide]

NoRiskCall ==
    [op |-> "none", entryPrice |-> 0, currentPrice |-> 0, side |-> NoSide,
     customTolerance |-> Omitted, configured |-> 0, tradingPlan |-> NoPlan]

\* kind says which of the fields holds the returned value
NoRiskResult ==
    [kind |-> "none", threw |-> FALSE, error |-> NoError,
     difference |-> [num |-> 0, den |-> 1],
     priceTolerance |-> NoPriceTolerance, assessment |-> NoAssessment]

Thrown == [NoRiskResult EXCEPT !.kind = "error", !.threw = TRUE,
                               !.error = EntryPriceError]

otherThanRisk == <<capitalVars, followVars>>

RiskInit ==
    /\ riskPc = "idle"
    /\ riskCall = NoRiskCall
    /\ riskResult = NoRiskResult

CalculateDirectionalPriceDifference ==
    /\ UNCHANGED otherThanRisk
    /\ riskPc = "idle"
    /\ \E entryPrice \in EntryPrices, currentPrice \in CurrentPrices :
          /\ riskCall' = [NoRiskCall EXCEPT
                              !.op = "calculateDirectionalPriceDifference",
                              !.entryPrice = entryPrice,
                              !.currentPrice = currentPrice]
          /\ riskResult' =
                 IF Throws(entryPrice) THEN Thrown
                 ELSE [NoRiskResult EXCEPT
                          !.kind = "difference",
                          !.difference = calculateDirectionalPriceDifference(
                                             entryPrice, currentPrice)]
    /\ riskPc' = "done"

CalculatePriceDifference ==
    /\ UNCHANGED otherThanRisk
    /\ riskPc = "idle"
    /\ \E entryPrice \in EntryPrices, currentPrice \in CurrentPrices :
          /\ riskCall' = [NoRiskCall EXCEPT
                              !.op = "calculatePriceDifference",
                              !.entryPrice = entryPrice,
                              !.currentPrice = currentPrice]
          /\ riskResult' =
                 IF Throws(entryPrice) THEN Thrown
                 ELSE [NoRiskResult EXCEPT
                          !.kind = "difference",
                          !.difference = calculatePriceDifference(
                                             entryPrice, currentPrice)]
    /\ riskPc' = "done"

CheckPriceTolerance ==
    /\ UNCHANGED otherThanRisk
    /\ riskPc = "idle"
    /\ \E entryPrice \in EntryPrices, currentPrice \in CurrentPrices,
          side \in Sides \cup {NoSide}, customTolerance \in Opt(Tolerances),
          configured \in ConfigTolerances :
          /\ riskCall' = [NoRiskCall EXCEPT
                              !.op = "checkPriceTolerance",
                              !.entryPrice = entryPrice,
                              !.currentPrice = currentPrice,
                              !.side = side,
                              !.customTolerance = customTolerance,
                              !.configured = configured]
          /\ riskResult' =
                 IF Throws(entryPrice) THEN Thrown
                 ELSE [NoRiskResult EXCEPT
                          !.kind = "priceTolerance",
                          !.priceTolerance =
                              checkPriceTolerance(entryPrice, currentPrice, side,
                                                  customTolerance, configured)]
    /\ riskPc' = "done"

CheckPriceToleranceLegacy ==
    /\ UNCHANGED otherThanRisk
    /\ riskPc = "idle"
    /\ \E entryPrice \in EntryPrices, currentPrice \in CurrentPrices,
          customTolerance \in Opt(Tolerances), configured \in ConfigTolerances :
          /\ riskCall' = [NoRiskCall EXCEPT
                              !.op = "checkPriceToleranceLegacy",
                              !.entryPrice = entryPrice,
                              !.currentPrice = currentPrice,
                              !.customTolerance = customTolerance,
                              !.configured = configured]
          /\ riskResult' =
                 IF Throws(entryPrice) THEN Thrown
                 ELSE [NoRiskResult EXCEPT
                          !.kind = "priceTolerance",
                          !.priceTolerance =
                              checkPriceToleranceLegacy(entryPrice, currentPrice,
                                                        customTolerance, configured)]
    /\ riskPc' = "done"

AssessRisk ==
    /\ UNCHANGED otherThanRisk
    /\ riskPc = "idle"
    /\ \E tradingPlan \in TradingPlans :
          /\ riskCall' = [NoRiskCall EXCEPT !.op = "assessRisk",
                                            !.tradingPlan = tradingPlan]
          /\ riskResult' = [NoRiskResult EXCEPT
                                !.kind = "assessment",
                                !.assessment = assessRisk(tradingPlan)]
    /\ riskPc' = "done"

AssessRiskWithPriceTolerance ==
    /\ UNCHANGED otherThanRisk
    /\ riskPc = "idle"
    /\ \E tradingPlan \in TradingPlans, entryPrice \in EntryPrices,
          currentPrice \in CurrentPrices, customTolerance \in Opt(Tolerances),
          configured \in ConfigTolerances :
          /\ riskCall' = [NoRiskCall EXCEPT
                              !.op = "assessRiskWithPriceTolerance",
                              !.tradingPlan = tradingPlan,
                              !.entryPrice = entryPrice,
                              !.currentPrice = currentPrice,
                              !.customTolerance = customTolerance,
                              !.configured = configured]
          /\ riskResult' =
                 IF Throws(entryPrice) THEN Thrown
                 ELSE LET priceTolerance ==
                              checkPriceToleranceLegacy(entryPrice, currentPrice,
                                                        customTolerance, configured)
                      IN  [NoRiskResult EXCEPT
                              !.kind = "assessment",
                              !.priceTolerance = priceTolerance,
                              !.assessment = assessRiskWithPriceTolerance(
                                                 tradingPlan, priceTolerance)]
    /\ riskPc' = "done"

AssessRiskWithDirectionalPriceTolerance ==
    /\ UNCHANGED otherThanRisk
    /\ riskPc = "idle"
    /\ \E tradingPlan \in TradingPlans, entryPrice \in EntryPrices,
          currentPrice \in CurrentPrices, side \in Sides,
          customTolerance \in Opt(Tolerances), configured \in ConfigTolerances :
          /\ riskCall' = [NoRiskCall EXCEPT
                              !.op = "assessRiskWithDirectionalPriceTolerance",
                              !.tradingPlan = tradingPlan,
                              !.entryPrice = entryPrice,
                              !.currentPrice = currentPrice,
                              !.side = side,
                              !.customTolerance = customTolerance,
                              !.configured = configured]
          /\ riskResult' =
                 IF Throws(entryPrice) THEN Thrown
                 ELSE LET priceTolerance ==
                              checkPriceTolerance(entryPrice, currentPrice, side,
                                                  customTolerance, configured)
                      IN  [NoRiskResult EXCEPT
                              !.kind = "assessment",
                              !.priceTolerance = priceTolerance,
                              !.assessment =
                                  assessRiskWithDirectionalPriceTolerance(
                                      tradingPlan, priceTolerance)]
    /\ riskPc' = "done"

ReturnRisk ==
    /\ UNCHANGED otherThanRisk
    /\ riskPc = "done"
    /\ riskPc' = "idle"
    /\ riskCall' = NoRiskCall
    /\ riskResult' = NoRiskResult

----------------------------------------------------------------------------
(* The order-history ledger and the follow cycle.  Their code is not in    *)
(* the source tree; they are modelled from the design document (4.1 Order  *)
(* History Store, 4.2 Position Reconciler, 4.3 Auto-Refollow Controller)   *)
(* and the auto-refollow guide.                                            *)

FollowSymbols == {"BTC", "ETH"}

\* The order in which a cycle handles the symbols
SymbolOrder == <<"BTC", "ETH">>

NoOid == 0

EmptyLedger == [processedOrders |-> <<>>, profitExits |-> <<>>,
                manualCloses |-> <<>>]

\* hasProcessed(symbol, entryOrderId)
hasProcessed(l, symbol, entryOid) ==
    \E i \in 1..Len(l.processedOrders) :
        /\ l.processedOrders[i].symbol = symbol
        /\ l.processedOrders[i].entryOid = entryOid

\* Some processed record of the symbol is in the store
hasRecordOf(l, symbol) ==
    \E i \in 1..Len(l.processedOrders) : l.processedOrders[i].symbol = symbol

Record(symbol, entryOid) == [symbol |-> symbol, entryOid |-> entryOid]

\* The entry_order_id of the symbol's latest processed record
RECURSIVE entryOidOf(_, _)
entryOidOf(processed, symbol) ==
    IF processed = <<>> THEN NoOid
    ELSE IF processed[Len(processed)].symbol = symbol
    THEN processed[Len(processed)].entryOid
    ELSE entryOidOf(SubSeq(processed, 1, Len(processed) - 1), symbol)

recordProcessed(l, rec) ==
    [l EXCEPT !.processedOrders = Append(@, rec)]

\* Mutant of removeProcessed: the whole processed history is deleted
removeProcessed_All(l, symbol) ==
    [l EXCEPT !.processedOrders = <<>>]

\* removeProcessed(symbol): deletes all processed entries of the symbol
removeProcessed(l, symbol) ==
    [l EXCEPT !.processedOrders = SelectSeq(@, LAMBDA r : r.symbol # symbol)]

recordProfitExit(l, rec) == [l EXCEPT !.profitExits = Append(@, rec)]

recordManualClose(l, rec) == [l EXCEPT !.manualCloses = Append(@, rec)]

\* Mutant of Classify: a failed broker query is read as "no position"
Classify_IgnoresFailure(l, sig, brk, brokerOk, symbol) ==
    IF sig[symbol] # NoOid /\ ~ hasProcessed(l, symbol, sig[symbol])
    THEN "NEW"
    ELSE IF sig[symbol] = NoOid /\ hasRecordOf(l, symbol)
    THEN "AGENT_CLOSED"
    ELSE IF sig[symbol] # NoOid /\ ~ brk[symbol]
    THEN "MANUAL_CLOSED"
    ELSE "UNCHANGED"

\* 4.2: the classification of one symbol.  brokerOk is false when manual-
\* close detection is disabled or the broker query failed.
Classify(l, sig, brk, brokerOk, symbol) ==
    IF sig[symbol] # NoOid /\ ~ hasProcessed(l, symbol, sig[symbol])
    THEN "NEW"
    ELSE IF sig[symbol] = NoOid /\ hasRecordOf(l, symbol)
    THEN "AGENT_CLOSED"
    ELSE IF sig[symbol] # NoOid /\ brokerOk /\ ~ brk[symbol]
    THEN "MANUAL_CLOSED"
    ELSE "UNCHANGED"

\* The state a cycle works on
Cycle(l, brk, ord) ==
    [ledger |-> l, broker |-> brk, orders |-> ord, removed |-> <<>>]

\* NEW: the order is placed unless the risk evaluator skips it, and then
\* recorded as processed
HandleNew(c, symbol, entryOid, executed) ==
    IF executed
    THEN [c EXCEPT !.orders = Append(@, Record(symbol, entryOid)),
                   !.broker[symbol] = TRUE,
                   !.ledger = recordProcessed(@, Record(symbol, entryOid))]
    ELSE c

\* Mutant of Reset: the processed entries are kept
Reset_Keep(c, symbol, autoRefollow) ==
    IF autoRefollow
    THEN [c EXCEPT !.removed = Append(@, symbol)]
    ELSE c

\* Mutant of Reset: the processed entries are removed in any case
Reset_Always(c, symbol, autoRefollow) ==
    [c EXCEPT !.ledger = removeProcessed(@, symbol),
              !.removed = Append(@, symbol)]

\* 4.3: the reset of a symbol, when auto-refollow is enabled
Reset(c, symbol, autoRefollow) ==
    IF autoRefollow
    THEN [c EXCEPT !.ledger = removeProcessed(@, symbol),
                   !.removed = Append(@, symbol)]
    ELSE c

\* AGENT_CLOSED: the position held is closed; when the closing trade met
\* the profit target a ProfitExitRecord is appended, then the reset
HandleAgentClosed(c, symbol, profitMet, autoRefollow) ==
    IF c.broker[symbol]
    THEN LET closed == [c EXCEPT !.broker[symbol] = FALSE]
         IN  IF profitMet
             THEN Reset([closed EXCEPT
                            !.ledger = recordProfitExit(@,
                                Record(symbol,
                                       entryOidOf(c.ledger.processedOrders, symbol)))],
                        symbol, autoRefollow)
             ELSE closed
    ELSE c

\* MANUAL_CLOSED: a ManualCloseRecord is appended, then the reset
HandleManualClosed(c, symbol, entryOid, autoRefollow) ==
    Reset([c EXCEPT !.ledger = recordManualClose(@, Record(symbol, entryOid))],
          symbol, autoRefollow)

Handle(c, class, symbol, entryOid, executed, profitMet, autoRefollow) ==
    IF class = "NEW" THEN HandleNew(c, symbol, entryOid, executed)
    ELSE IF class = "AGENT_CLOSED"
    THEN HandleAgentClosed(c, symbol, profitMet, autoRefollow)
    ELSE IF class = "MANUAL_CLOSED"
    THEN HandleManualClosed(c, symbol, entryOid, autoRefollow)
    ELSE c

\* One cycle: every symbol is classified against the ledger read at the
\* start of the cycle, then the events are handled in order
RECURSIVE HandleAll(_, _, _, _, _, _, _)
HandleAll(c, classes, symbols, sig, executed, profitMet, autoRefollow) ==
    IF symbols = <<>> THEN c
    ELSE LET s == Head(symbols)
         IN  HandleAll(Handle(c, classes[s], s, sig[s], executed[s],
                              profitMet[s], autoRefollow),
                       classes, Tail(symbols), sig, executed, profitMet,
                       autoRefollow)

NoOptions == [autoRefollow |-> FALSE, detectManualClose |-> FALSE]

NoPoll == [classes |-> [s \in FollowSymbols |-> "NONE"],
           known |-> [s \in FollowSymbols |-> FALSE],
           brokerFailed |-> FALSE,
           profitMet |-> [s \in FollowSymbols |-> FALSE],
           removed |-> <<>>]

otherThanFollow == <<capitalVars, riskVars>>

FollowInit ==
    /\ followPc = "start"
    /\ options = NoOptions
    /\ signal = [s \in FollowSymbols |-> NoOid]
    /\ lastOid = [s \in FollowSymbols |-> NoOid]
    /\ broker = [s \in FollowSymbols |-> FALSE]
    /\ ledger = EmptyLedger
    /\ orders = <<>>
    /\ polls = 0
    /\ lastPoll = NoPoll

\* The follow command starts with the options of its command line
StartFollow ==
    /\ UNCHANGED otherThanFollow
    /\ followPc = "start"
    /\ \E autoRefollow \in BOOLEAN, detectManualClose \in BOOLEAN :
          options' = [autoRefollow |-> autoRefollow,
                      detectManualClose |-> detectManualClose]
    /\ followPc' = "running"
    /\ UNCHANGED <<signal, lastOid, broker, ledger, orders, polls, lastPoll>>

\* The agent opens a position: the signal reports a fresh entry_order_id
AgentOpens ==
    /\ UNCHANGED otherThanFollow
    /\ followPc = "running"
    /\ \E s \in FollowSymbols :
          /\ lastOid[s] < MaxOid
          /\ lastOid' = [lastOid EXCEPT ![s] = @ + 1]
          /\ signal' = [signal EXCEPT ![s] = lastOid[s] + 1]
    /\ UNCHANGED <<followPc, options, broker, ledger, orders, polls, lastPoll>>

\* The agent closes its position: the signal no longer lists the symbol
AgentCloses ==
    /\ UNCHANGED otherThanFollow
    /\ followPc = "running"
    /\ \E s \in FollowSymbols :
          /\ signal[s] # NoOid
          /\ signal' = [signal EXCEPT ![s] = NoOid]
    /\ UNCHANGED <<followPc, options, lastOid, broker, ledger, orders, polls,
                   lastPoll>>

\* The operator closes a position on the exchange by hand
ManualClose ==
    /\ UNCHANGED otherThanFollow
    /\ followPc = "running"
    /\ \E s \in FollowSymbols :
          /\ broker[s]
          /\ broker' = [broker EXCEPT ![s] = FALSE]
    /\ UNCHANGED <<followPc, options, signal, lastOid, ledger, orders, polls,
                   lastPoll>>

\* One reconciliation cycle, run to completion
Poll ==
    /\ UNCHANGED otherThanFollow
    /\ followPc = "running"
    /\ polls < MaxPolls
    /\ \E brokerFailed \in BOOLEAN, executed \in [FollowSymbols -> BOOLEAN],
          profitMet \in [FollowSymbols -> BOOLEAN] :
          LET brokerOk == options.detectManualClose /\ ~ brokerFailed
              classes == [s \in FollowSymbols |->
                             Classify(ledger, signal, broker, brokerOk, s)]
              done == HandleAll(Cycle(ledger, broker, orders), classes,
                                SymbolOrder, signal, executed, profitMet,
                                options.autoRefollow)
          IN  /\ brokerFailed => options.detectManualClose
              /\ \A s \in FollowSymbols :
                    /\ executed[s] => classes[s] = "NEW"
                    /\ profitMet[s] => classes[s] = "AGENT_CLOSED" /\ broker[s]
              /\ ledger' = done.ledger
              /\ broker' = done.broker
              /\ orders' = done.orders
              /\ lastPoll' = [classes |-> classes,
                              known |-> [s \in FollowSymbols |->
                                            signal[s] # NoOid
                                            /\ hasProcessed(ledger, s, signal[s])],
                              brokerFailed |-> brokerFailed,
                              profitMet |-> profitMet,
                              removed |-> done.removed]
    /\ polls' = polls + 1
    /\ UNCHANGED <<followPc, options, signal, lastOid>>

----------------------------------------------------------------------------
(* The specifications *)

vars == <<capitalVars, riskVars, followVars>>

Init == CapitalInit /\ RiskInit /\ FollowInit

\* The capital manager: proportional mode, the default budget, the options
Next ==
    \/ AllocateMargin
    \/ ValidateAllocation
    \/ GetDefaultTotalMargin
    \/ SetDefaultTotalMargin
    \/ ValidateAllocationOptions
    \/ Return

Spec == Init /\ [][Next]_vars

\* The capital manager: fixed-amount mode
NextFixed ==
    \/ AllocateFixedMargin
    \/ ValidateFixedAllocation
    \/ Return

SpecFixed == Init /\ [][NextFixed]_vars

\* The risk manager
NextRisk ==
    \/ CalculateDirectionalPriceDifference
    \/ CalculatePriceDifference
    \/ CheckPriceTolerance
    \/ CheckPriceToleranceLegacy
    \/ AssessRisk
    \/ AssessRiskWithPriceTolerance
    \/ AssessRiskWithDirectionalPriceTolerance
    \/ ReturnRisk

SpecRisk == Init /\ [][NextRisk]_vars

\* The follow cycle and its environment
NextFollow ==
    \/ StartFollow
    \/ AgentOpens
    \/ AgentCloses
    \/ ManualClose
    \/ Poll

SpecFollow == Init /\ [][NextFollow]_vars

\* The capital manager, both allocation modes
NextCapital ==
    \/ Next
    \/ NextFixed

SpecCapital == Init /\ [][NextCapital]_vars

----------------------------------------------------------------------------
(* Claims about the capital manager *)

AfterAllocateMargin == pc = "allocated" /\ call.op = "allocateMargin"

AfterAllocateFixedMargin == pc = "allocated" /\ call.op = "allocateFixedMargin"

\* The positions with margin > 0, as the claims name them
Eligible(positions) == SelectSeq(positions, LAMBDA p : p.margin > 0)

\* C1: proportional allocation never requests more than the budget: for
\* every totalMargin >= 0 the caller passes (0 included, availableBalance
\* omitted) the sum of allocatedMargin, and totalAllocatedMargin, is
\* <= totalMargin.
C1_NeverExceedsBudget ==
    (/\ AfterAllocateMargin
     /\ IsSupplied(call.totalMargin)
     /\ call.totalMargin[1] >= 0
     /\ call.availableBalance = Omitted)
    => /\ SumSeq(AllocatedMargins(result.allocations)) <= call.totalMargin[1]
       /\ result.totalAllocatedMargin <= call.totalMargin[1]

\* C2: proportional allocation clamps to the available balance: whenever
\* availableBalance >= 0 is supplied (0 included) and the budget asked for
\* exceeds it, the sum of allocatedMargin is <= availableBalance.
C2_ClampedToBalance ==
    (/\ AfterAllocateMargin
     /\ IsSupplied(call.availableBalance)
     /\ call.availableBalance[1] >= 0
     /\ (IF IsSupplied(call.totalMargin) THEN call.totalMargin[1]
         ELSE defaultTotalMargin) > call.availableBalance[1])
    => SumSeq(AllocatedMargins(result.allocations)) <= call.availableBalance[1]

\* C3: fixed-amount allocation respects its caps: totalAllocatedMargin is
\* <= every cap supplied.  Stated for the caps >= 0, 0 included: a total is
\* never negative, so no allocator keeps it under a negative cap.
C3_FixedRespectsCaps ==
    AfterAllocateFixedMargin
    => \A cap \in {call.maxTotalMargin, call.availableBalance} :
           (IsSupplied(cap) /\ cap[1] >= 0)
           => result.totalAllocatedMargin <= cap[1]

\* The budget of the claims: min(maxTotalMargin or infinity,
\* availableBalance or infinity, fixedAmountPerCoin * eligibleCount)
UsableBudget(c) ==
    SetMin({c.fixedAmountPerCoin[1] * Len(Eligible(c.positions))}
           \cup {o[1] : o \in {x \in {c.maxTotalMargin, c.availableBalance} :
                                  IsSupplied(x)}})

PositiveCaps(c) ==
    \A cap \in {c.maxTotalMargin, c.availableBalance} :
        IsSupplied(cap) => cap[1] > 0

C5_ExactlyFixedAmount ==
    /\ (AfterAllocateFixedMargin /\ call.fixedAmountPerCoin[1] > 0)
       => \A i \in 1..Len(result.allocations) :
              result.allocations[i].allocatedMargin = call.fixedAmountPerCoin[1]
    /\ (pc = "validated" /\ validation.op = "validateFixedAllocation")
       => /\ (validation.expected = call.fixedAmountPerCoin
              /\ call.fixedAmountPerCoin[1] > 0) => validation.isValid
          /\ ~ validation.isValid
             <=> \E i \in 1..Len(result.allocations) :
                     result.allocations[i].allocatedMargin # validation.expected[1]

AfterValidateOptions ==
    pc = "validated" /\ validation.op = "validateAllocationOptions"

BothSupplied(c) == IsSupplied(c.totalMargin) /\ IsSupplied(c.fixedAmountPerCoin)

\* C6: validateAllocationOptions accepts exactly when at most one of
\* totalMargin and fixedAmountPerCoin is supplied and every supplied one is
\* > 0; both supplied is rejected with an error; and the check changes no
\* state of the manager and performs no allocation.
C6_OptionsInv ==
    AfterValidateOptions
    => /\ validation.isValid
          <=> /\ ~ BothSupplied(call)
              /\ \A o \in {call.totalMargin, call.fixedAmountPerCoin} :
                     IsSupplied(o) => o[1] > 0
       /\ BothSupplied(call)
          => (~ validation.isValid /\ validation.error # NoError)
       /\ result = NoResult

C6_OptionsValidation ==
    /\ [] C6_OptionsInv
    /\ [][ValidateAllocationOptions
          => (defaultTotalMargin' = defaultTotalMargin /\ result' = result)]_vars

\* C6's case: both options were supplied, with a default budget that was set
C6_Witness ==
    /\ AfterValidateOptions
    /\ BothSupplied(call)
    /\ call.totalMargin[1] > 0
    /\ call.fixedAmountPerCoin[1] > 0
    /\ defaultTotalMargin # Whole(DefaultTotalMarginInit)

AfterAllocation == pc = "allocated"

\* The input position an allocation was made for (symbols are distinct)
SourcePosition(positions, symbol) ==
    positions[CHOOSE i \in 1..Len(positions) : positions[i].symbol = symbol]

\* C12: side follows the sign of the signal quantity: every allocation of
\* allocateMargin or allocateFixedMargin has side BUY exactly when the
\* source position's quantity is > 0 and SELL exactly when it is < 0, and
\* no allocation is returned for a position whose quantity is 0.
C12_SideFollowsSign ==
    AfterAllocation
    => \A i \in 1..Len(result.allocations) :
           LET a == result.allocations[i]
               p == SourcePosition(call.positions, a.symbol)
           IN  /\ (a.side = "BUY") <=> (p.quantity > 0)
               /\ (a.side = "SELL") <=> (p.quantity < 0)
               /\ p.quantity # 0

\* C13: zero-margin positions are never funded: in both modes the
\* allocations are made for input positions with margin > 0 only, in input
\* order, and carry the position's symbol, leverage and originalMargin; in
\* proportional mode every position with margin > 0 appears exactly once;
\* an input with no such position yields no allocation and three totals 0.
\* (The funded positions are a prefix of the eligible ones in both modes.)
C13_OnlyPositiveMargin ==
    AfterAllocation
    => LET eligible == Eligible(call.positions)
           allocations == result.allocations
       IN  /\ Len(allocations) <= Len(eligible)
           /\ \A i \in 1..Len(allocations) :
                  /\ allocations[i].symbol = eligible[i].symbol
                  /\ allocations[i].leverage = eligible[i].leverage
                  /\ allocations[i].originalMargin = eligible[i].margin
                  /\ allocations[i].originalMargin > 0
           /\ call.op = "allocateMargin" => Len(allocations) = Len(eligible)
           /\ Len(eligible) = 0
              => /\ allocations = <<>>
                 /\ result.totalOriginalMargin = 0
                 /\ result.totalAllocatedMargin = 0
                 /\ result.totalNotionalValue = 0

\* C13's case: a zero-margin position stands between two funded ones
C13_Witness ==
    /\ AfterAllocation
    /\ call.op = "allocateMargin"
    /\ Len(call.positions) = 3
    /\ call.positions[1].margin > 0
    /\ call.positions[2].margin = 0
    /\ call.positions[3].margin > 0
    /\ Len(result.allocations) = 2
    /\ result.allocations[2].symbol = call.positions[3].symbol

\* Some supplied cap is smaller than the fixed amount
CapBelowFixedAmount(c) ==
    \E cap \in {c.maxTotalMargin, c.availableBalance} :
        IsSupplied(cap) /\ cap[1] < c.fixedAmountPerCoin[1]

\* C14: insufficient funds in fixed mode degrade to an empty result:
\* whenever a supplied maxTotalMargin or availableBalance is smaller than
\* fixedAmountPerCoin, or fixedAmountPerCoin <= 0, allocateFixedMargin
\* returns no allocation, totalAllocatedMargin 0 and totalNotionalValue 0,
\* and does not throw.
C14_InsufficientFundsEmpty ==
    (/\ AfterAllocateFixedMargin
     /\ (CapBelowFixedAmount(call) \/ call.fixedAmountPerCoin[1] <= 0))
    => /\ result.allocations = <<>>
       /\ result.totalAllocatedMargin = 0
       /\ result.totalNotionalValue = 0
       /\ ~ call.threw

\* C15: validateAllocation accepts the allocator's own output: for every
\* totalMargin > 0 and every non-empty list of positions with margin > 0,
\* validateAllocation(allocateMargin(positions, totalMargin)) is true.
C15_AcceptsOwnOutput ==
    (/\ pc = "validated"
     /\ validation.op = "validateAllocation"
     /\ call.op = "allocateMargin"
     /\ IsSupplied(call.totalMargin)
     /\ call.totalMargin[1] > 0
     /\ call.availableBalance = Omitted
     /\ call.positions # <<>>
     /\ \A i \in 1..Len(call.positions) : call.positions[i].margin > 0)
    => validation.isValid

\* The static precision table as the claims read it: the symbol's entry,
\* with or without the USDT suffix, and 3 decimals for a symbol not listed
TablePrecision(symbol) ==
    IF symbol.base \in DOMAIN quantityPrecisionMap
    THEN quantityPrecisionMap[symbol.base]
    ELSE 3

\* The quantity before rounding: allocated margin (not floored) times
\* leverage over the current price, as a fraction
UnroundedQuantity(c, totalMarginToUse, a) ==
    LET p == SourcePosition(c.positions, a.symbol)
    IN  IF c.op = "allocateMargin"
        THEN [num |-> totalMarginToUse * a.allocationRatio.num * p.leverage,
              den |-> a.allocationRatio.den * Unit * p.current_price]
        ELSE [num |-> c.fixedAmountPerCoin[1] * p.leverage,
              den |-> Unit * p.current_price]

\* Round-half-up of num / den times 10^precision, as an integer
RoundHalfUp(q, precision) ==
    (2 * q.num * Pow10(precision) + q.den) \div (2 * q.den)

\* C16: quantity precision follows the per-symbol table: adjustedQuantity
\* is round-half-up of quantity * 10^p divided by 10^p, where p is the
\* symbol's table entry (ADA 0, XRP 1, ...) and 3 only for a symbol that is
\* not in the table.
C16_TablePrecision ==
    AfterAllocation
    => \A i \in 1..Len(result.allocations) :
           LET a == result.allocations[i]
               p == TablePrecision(a.symbol)
               q == UnroundedQuantity(call,
                        TotalMarginToUse(call.totalMargin, call.availableBalance,
                                         defaultTotalMargin), a)
           IN  a.adjustedQuantity.num * Pow10(p)
                   = RoundHalfUp(q, p) * a.adjustedQuantity.den

\* a/b = c/d for fractions with positive denominators
SameFraction(x, num, den) == x.num * den = num * x.den

\* The sum of the ratios is within 0.001 of 1; every ratio of one result
\* has the denominator den
RatiosSumToOne(allocations, den) ==
    LET nums == [i \in 1..Len(allocations) |-> allocations[i].allocationRatio.num]
    IN  /\ \A i \in 1..Len(allocations) : allocations[i].allocationRatio.den = den
        /\ Abs(SumSeq(nums) - den) * 1000 <= den

\* C17: allocation ratios form a partition of the budget: for a non-empty
\* set of positions with margin > 0 each allocationRatio of allocateMargin
\* is margin / (sum of the eligible margins), lies in (0, 1], and the ratios
\* sum to 1 within 0.001; in allocateFixedMargin each ratio is 1 / (number
\* of funded positions) and they sum to 1 as well.
C17_RatiosPartition ==
    (AfterAllocation /\ result.allocations # <<>>)
    => LET allocations == result.allocations
           total == SumSeq(Margins(Eligible(call.positions)))
       IN  /\ \A i \in 1..Len(allocations) :
                  LET ratio == allocations[i].allocationRatio
                  IN  /\ ratio.den > 0
                      /\ ratio.num > 0
                      /\ ratio.num <= ratio.den
                      /\ IF call.op = "allocateMargin"
                         THEN SameFraction(ratio, allocations[i].originalMargin,
                                           total)
                         ELSE SameFraction(ratio, 1, Len(allocations))
           /\ RatiosSumToOne(allocations, allocations[1].allocationRatio.den)

\* C17's case: three positions of unequal margins share the budget
C17_Witness ==
    /\ AfterAllocateMargin
    /\ Len(result.allocations) = 3
    /\ result.allocations[1].originalMargin # result.allocations[2].originalMargin
    /\ result.allocations[1].allocationRatio.num * 2
           < result.allocations[1].allocationRatio.den

\* What holds of the default in every state
C22_DefaultInv ==
    /\ defaultTotalMargin > 0
    /\ (pc = "done" /\ call.op = "getDefaultTotalMargin")
       => call.value = <<defaultTotalMargin>>
    /\ (AfterAllocateMargin /\ call.totalMargin = Omitted)
       => result = allocateMargin(call.positions, <<defaultTotalMargin>>,
                                  call.availableBalance, defaultTotalMargin,
                                  call.short)

\* What a step does to the default: only setDefaultTotalMargin(m) with
\* m > 0 changes it, to m; with m <= 0 it throws and changes nothing
C22_DefaultStep ==
    IF pc = "idle" /\ call'.op = "setDefaultTotalMargin"
    THEN IF call'.margin[1] > 0
         THEN /\ defaultTotalMargin' = call'.margin[1]
              /\ ~ call'.threw
         ELSE /\ defaultTotalMargin' = defaultTotalMargin
              /\ call'.threw
              /\ call'.error = "Total margin must be positive"
    ELSE defaultTotalMargin' = defaultTotalMargin

\* C22: the default total margin is positive across any sequence of
\* operations: it starts at 10; setDefaultTotalMargin(m) with m > 0 makes
\* getDefaultTotalMargin() return m; with m <= 0 it fails with 'Total
\* margin must be positive' and leaves the default unchanged;
\* allocateMargin without totalMargin allocates as allocateMargin(positions,
\* getDefaultTotalMargin()); no allocate or validate call changes the default.
C22_DefaultTotalMargin ==
    /\ defaultTotalMargin = Whole(10)
    /\ []C22_DefaultInv
    /\ [][C22_DefaultStep]_vars

\* C22's case: a default was set, a non-positive one was then refused
C22_Witness ==
    /\ pc = "done"
    /\ call.op = "setDefaultTotalMargin"
    /\ call.threw
    /\ defaultTotalMargin # Whole(10)

\* C23: in every allocation returned by allocateMargin, notionalValue ==
\* floor(allocatedMargin * leverage) for the floored allocatedMargin of the
\* same entry, so the implied capital notionalValue / leverage never exceeds
\* allocatedMargin; in allocateFixedMargin notionalValue ==
\* fixedAmountPerCoin * leverage.
C23_NotionalFromAllocatedMargin ==
    /\ AfterAllocateMargin
       => \A i \in 1..Len(result.allocations) :
              LET a == result.allocations[i]
              IN  /\ a.notionalValue = Math_floor(a.allocatedMargin * a.leverage)
                  /\ a.notionalValue <= a.allocatedMargin * a.leverage
    /\ AfterAllocateFixedMargin
       => \A i \in 1..Len(result.allocations) :
              LET a == result.allocations[i]
              IN  a.notionalValue = call.fixedAmountPerCoin[1] * a.leverage

\* C30: floor truncation loses less than one unit per funded position: for
\* every totalMargin > 0 and every non-empty list of n positions with
\* margin > 0 (no availableBalance clamp), allocateMargin leaves an
\* unallocated remainder totalMargin - totalAllocatedMargin that is >= 0
\* and strictly less than n, and totalAllocatedMargin and
\* totalNotionalValue equal the sums of the per-entry allocatedMargin and
\* notionalValue.
C30_RemainderBelowCount ==
    (/\ AfterAllocateMargin
     /\ IsSupplied(call.totalMargin)
     /\ call.totalMargin[1] > 0
     /\ call.availableBalance = Omitted
     /\ call.positions # <<>>
     /\ \A i \in 1..Len(call.positions) : call.positions[i].margin > 0)
    => LET remainder == call.totalMargin[1] - result.totalAllocatedMargin
       IN  /\ remainder >= 0
           /\ remainder < Whole(Len(call.positions))
           /\ result.totalAllocatedMargin
                  = SumSeq(AllocatedMargins(result.allocations))
           /\ result.totalNotionalValue
                  = SumSeq(NotionalValues(result.allocations))

----------------------------------------------------------------------------
(* Claims about the risk manager *)

AfterCheckPriceTolerance ==
    /\ riskPc = "done"
    /\ riskCall.op = "checkPriceTolerance"
    /\ ~ riskResult.threw

\* The move, in percent of the entry price, exceeds the tolerance
Exceeds(entryPrice, currentPrice, tolerance) ==
    Abs(currentPrice - entryPrice) * 100 > tolerance * entryPrice

\* C7: checkPriceTolerance with a side: favorableForExecution is true
\* exactly when (BUY and directionalPriceDifference <= 0) or (SELL and
\* directionalPriceDifference >= 0); shouldExecute is withinTolerance or
\* favorableForExecution; so execution is blocked exactly when the move
\* exceeds the tolerance and went against the position.
C7_FavorableDriftOverride ==
    (AfterCheckPriceTolerance /\ riskCall.side \in Sides)
    => LET r == riskResult.priceTolerance
           directional == r.directionalPriceDifference
           against == \/ riskCall.side = "BUY"
                         /\ riskCall.currentPrice > riskCall.entryPrice
                      \/ riskCall.side = "SELL"
                         /\ riskCall.currentPrice < riskCall.entryPrice
       IN  /\ directional.den > 0
           /\ directional.num * riskCall.entryPrice
                  = (riskCall.currentPrice - riskCall.entryPrice) * 100
                        * directional.den
           /\ r.favorableForExecution
              <=> \/ riskCall.side = "BUY" /\ directional.num <= 0
                  \/ riskCall.side = "SELL" /\ directional.num >= 0
           /\ r.shouldExecute <=> (r.withinTolerance \/ r.favorableForExecution)
           /\ ~ r.shouldExecute
              <=> /\ Exceeds(riskCall.entryPrice, riskCall.currentPrice,
                             r.tolerance)
                  /\ against

\* C7's case: a move beyond the tolerance that is favorable, so executed
C7_Witness ==
    /\ AfterCheckPriceTolerance
    /\ riskCall.side = "SELL"
    /\ riskCall.currentPrice > riskCall.entryPrice
    /\ ~ riskResult.priceTolerance.withinTolerance
    /\ riskResult.priceTolerance.favorableForExecution
    /\ riskResult.priceTolerance.shouldExecute

\* C8: checkPriceTolerance applies the tolerance it is given: for every
\* tolerance >= 0 the caller passes (0 included) the returned tolerance is
\* that value and withinTolerance is priceDifference <= that value.
C8_AppliesGivenTolerance ==
    (/\ AfterCheckPriceTolerance
     /\ IsSupplied(riskCall.customTolerance)
     /\ riskCall.customTolerance[1] >= 0)
    => /\ riskResult.priceTolerance.tolerance = riskCall.customTolerance[1]
       /\ riskResult.priceTolerance.withinTolerance
          <=> ~ Exceeds(riskCall.entryPrice, riskCall.currentPrice,
                        riskCall.customTolerance[1])

PriceMethods ==
    {"calculateDirectionalPriceDifference", "calculatePriceDifference",
     "checkPriceTolerance", "checkPriceToleranceLegacy",
     "assessRiskWithPriceTolerance", "assessRiskWithDirectionalPriceTolerance"}

\* C9: an entry price <= 0 is rejected: each of the six methods that take
\* an entry price fails with 'Entry price must be greater than 0' for every
\* current price and returns no result; for an entry price > 0 none of
\* them fails, a tolerance rejection being a returned value with
\* shouldExecute = false.
C9_EntryPriceRejected ==
    (riskPc = "done" /\ riskCall.op \in PriceMethods)
    => /\ riskResult.threw <=> riskCall.entryPrice <= 0
       /\ riskResult.threw
          => /\ riskResult.error = EntryPriceError
             /\ riskResult.kind = "error"
             /\ riskResult.priceTolerance = NoPriceTolerance
             /\ riskResult.assessment = NoAssessment
       /\ ~ riskResult.threw
          => /\ riskResult.error = NoError
             /\ riskResult.kind \in {"difference", "priceTolerance", "assessment"}

\* C9's case: an assessment asked for with an entry price of 0
C9_Witness ==
    /\ riskPc = "done"
    /\ riskCall.op = "assessRiskWithDirectionalPriceTolerance"
    /\ riskCall.entryPrice = 0
    /\ riskCall.currentPrice > 0
    /\ riskResult.threw

\* A difference method returned
AfterDifference(op) ==
    /\ riskPc = "done"
    /\ riskCall.op = op
    /\ ~ riskResult.threw

\* C18: for entry > 0 calculateDirectionalPriceDifference returns
\* (current - entry) / entry * 100, which is 0 exactly when entry = current,
\* positive exactly when current > entry and negative exactly when current
\* < entry; calculatePriceDifference is its absolute value, never negative.
C18_PriceDifferences ==
    LET entry == riskCall.entryPrice
        current == riskCall.currentPrice
        d == riskResult.difference
    IN  /\ AfterDifference("calculateDirectionalPriceDifference")
           => /\ entry > 0 /\ d.den > 0
              /\ d.num * entry = (current - entry) * 100 * d.den
              /\ (d.num = 0) <=> (entry = current)
              /\ (d.num > 0) <=> (current > entry)
              /\ (d.num < 0) <=> (current < entry)
        /\ AfterDifference("calculatePriceDifference")
           => /\ entry > 0 /\ d.den > 0
              /\ d.num * entry = Abs((current - entry) * 100) * d.den
              /\ d.num >= 0

\* C18's case: the price fell, the absolute difference is positive
C18_Witness ==
    /\ AfterDifference("calculatePriceDifference")
    /\ riskCall.currentPrice < riskCall.entryPrice
    /\ riskResult.difference.num > 0

\* C19: the overall verdict gates on the directional check:
\* assessRiskWithDirectionalPriceTolerance returns isValid = (the basic
\* assessment's isValid and shouldExecute), appends the 'Price tolerance
\* check failed' warning exactly when shouldExecute is false, and carries
\* riskScore, maxLoss, suggestedPositionSize and the basic warnings over.
C19_VerdictGatesOnDirection ==
    (/\ riskPc = "done"
     /\ riskCall.op = "assessRiskWithDirectionalPriceTolerance"
     /\ ~ riskResult.threw)
    => LET basic == assessRisk(riskCall.tradingPlan)
           check == riskResult.priceTolerance
           a == riskResult.assessment
       IN  /\ a.isValid <=> (basic.isValid /\ check.shouldExecute)
           /\ a.warnings = IF check.shouldExecute THEN basic.warnings
                           ELSE basic.warnings \o <<"Price tolerance check failed">>
           /\ a.riskScore = basic.riskScore
           /\ a.maxLoss = basic.maxLoss
           /\ a.suggestedPositionSize = basic.suggestedPositionSize
           /\ check.shouldExecute
              <=> (check.withinTolerance \/ check.favorableForExecution)

\* C19's case: a favorable move beyond the tolerance keeps the plan valid
C19_Witness ==
    /\ riskPc = "done"
    /\ riskCall.op = "assessRiskWithDirectionalPriceTolerance"
    /\ ~ riskResult.threw
    /\ ~ riskResult.priceTolerance.withinTolerance
    /\ riskResult.priceTolerance.shouldExecute
    /\ riskResult.assessment.isValid
    /\ riskResult.assessment.warnings = <<>>

\* C20: without a side there is no favorable-drift override: when
\* checkPriceTolerance is called with side omitted, favorableForExecution
\* is false and shouldExecute = withinTolerance, whichever way the price
\* moved.
C20_NoSideNoOverride ==
    (AfterCheckPriceTolerance /\ riskCall.side = NoSide)
    => /\ ~ riskResult.priceTolerance.favorableForExecution
       /\ riskResult.priceTolerance.shouldExecute
          <=> riskResult.priceTolerance.withinTolerance
       /\ riskResult.priceTolerance.withinTolerance
          <=> ~ Exceeds(riskCall.entryPrice, riskCall.currentPrice,
                        riskResult.priceTolerance.tolerance)

\* C20's case: no side, the price fell beyond the tolerance: not executed
C20_Witness ==
    /\ AfterCheckPriceTolerance
    /\ riskCall.side = NoSide
    /\ riskCall.currentPrice < riskCall.entryPrice
    /\ ~ riskResult.priceTolerance.withinTolerance
    /\ ~ riskResult.priceTolerance.shouldExecute


\* C27: the reason text of checkPriceTolerance names exactly one of three
\* mutually exclusive cases determined by the returned flags: 'within
\* tolerance' exactly when withinTolerance is true; 'favorable for <side>
\* position' exactly when withinTolerance is false and favorableForExecution
\* is true; 'exceeds tolerance ... unfavorable' exactly when shouldExecute
\* is false.
C27_ReasonNamesTheCase ==
    AfterCheckPriceTolerance
    => LET r == riskResult.priceTolerance
       IN  /\ r.reason.template \in {"within", "favorable", "unfavorable"}
           /\ r.reason.template = "within" <=> r.withinTolerance
           /\ r.reason.template = "favorable"
              <=> (~ r.withinTolerance /\ r.favorableForExecution)
           /\ r.reason.template = "unfavorable" <=> ~ r.shouldExecute
           /\ r.reason.template = "favorable"
              => /\ r.reason.side = riskCall.side
                 /\ riskCall.side \in Sides

\* C27's case: a move that is favorable for the side and within tolerance
\* is reported as within tolerance
C27_Witness ==
    /\ AfterCheckPriceTolerance
    /\ riskCall.side = "SELL"
    /\ riskCall.currentPrice > riskCall.entryPrice
    /\ riskResult.priceTolerance.favorableForExecution
    /\ riskResult.priceTolerance.withinTolerance
    /\ riskResult.priceTolerance.reason.template = "within"


LegacyMethods == {"checkPriceToleranceLegacy", "assessRiskWithPriceTolerance"}

\* C28: the legacy path ignores direction: checkPriceToleranceLegacy and
\* assessRiskWithPriceTolerance always report favorableForExecution = false
\* and shouldExecute == withinTolerance, assessRiskWithPriceTolerance
\* returns isValid == (assessRisk(plan).isValid and withinTolerance), so a
\* move beyond tolerance invalidates the plan even when it is favorable for
\* the plan's side, and withinTolerance, priceDifference,
\* directionalPriceDifference and tolerance equal those of
\* checkPriceTolerance called with side omitted.
C28_LegacyIgnoresDirection ==
    (riskPc = "done" /\ riskCall.op \in LegacyMethods /\ ~ riskResult.threw)
    => LET r == riskResult.priceTolerance
           sideless == checkPriceTolerance(riskCall.entryPrice,
                                           riskCall.currentPrice, NoSide,
                                           riskCall.customTolerance,
                                           riskCall.configured)
       IN  /\ ~ r.favorableForExecution
           /\ r.shouldExecute = r.withinTolerance
           /\ r.withinTolerance = sideless.withinTolerance
           /\ r.priceDifference = sideless.priceDifference
           /\ r.directionalPriceDifference = sideless.directionalPriceDifference
           /\ r.tolerance = sideless.tolerance
           /\ riskCall.op = "assessRiskWithPriceTolerance"
              => /\ riskResult.assessment.isValid
                    = (assessRisk(riskCall.tradingPlan).isValid
                       /\ r.withinTolerance)
                 /\ Exceeds(riskCall.entryPrice, riskCall.currentPrice,
                            r.tolerance)
                    => ~ riskResult.assessment.isValid

\* C28's case: a BUY plan, the price fell beyond the tolerance, the plan is
\* reported invalid
C28_Witness ==
    /\ riskPc = "done"
    /\ riskCall.op = "assessRiskWithPriceTolerance"
    /\ ~ riskResult.threw
    /\ riskCall.tradingPlan.side = "BUY"
    /\ riskCall.currentPrice < riskCall.entryPrice
    /\ ~ riskResult.priceTolerance.withinTolerance
    /\ ~ riskResult.assessment.isValid


AssessMethods ==
    {"assessRisk", "assessRiskWithPriceTolerance",
     "assessRiskWithDirectionalPriceTolerance"}

\* C29: the basic risk score never blocks a plan: calculateRiskScore is
\* min(20 + 10 * leverage, 100), so for every trading plan assessRisk
\* returns riskScore <= 100 and isValid == true, and therefore the isValid
\* of assessRiskWithDirectionalPriceTolerance equals
\* priceTolerance.shouldExecute for every leverage.
C29_RiskScoreNeverBlocks ==
    (riskPc = "done" /\ riskCall.op \in AssessMethods /\ ~ riskResult.threw)
    => LET a == riskResult.assessment
           uncapped == 20 + 10 * riskCall.tradingPlan.leverage
       IN  /\ a.riskScore = (IF uncapped < 100 THEN uncapped ELSE 100)
           /\ a.riskScore <= 100
           /\ riskCall.op = "assessRisk" => a.isValid
           /\ riskCall.op = "assessRiskWithDirectionalPriceTolerance"
              => a.isValid = riskResult.priceTolerance.shouldExecute

\* C29's case: a plan whose uncapped score would pass 100 is executed
C29_Witness ==
    /\ riskPc = "done"
    /\ riskCall.op = "assessRiskWithDirectionalPriceTolerance"
    /\ ~ riskResult.threw
    /\ 20 + 10 * riskCall.tradingPlan.leverage > 100
    /\ riskResult.assessment.riskScore = 100
    /\ riskResult.assessment.isValid
    /\ ~ riskResult.priceTolerance.withinTolerance

----------------------------------------------------------------------------
(* Claims about the follow cycle *)

\* The number of records of a (symbol, entry_order_id) in a collection
RECURSIVE CountOf(_, _, _)
CountOf(records, symbol, entryOid) ==
    IF records = <<>> THEN 0
    ELSE (IF Head(records) = Record(symbol, entryOid) THEN 1 ELSE 0)
         + CountOf(Tail(records), symbol, entryOid)

EntryOids == 1..MaxOid

\* C10: while the signal keeps the same entry_order_id for a symbol, a
\* symbol whose (symbol, entry_order_id) is recorded as processed is never
\* classified NEW again, so at most one order is placed and at most one
\* processed record exists per (symbol, entry_order_id).
C10_ProcessedOnce ==
    \A s \in FollowSymbols :
        /\ lastPoll.known[s] => lastPoll.classes[s] # "NEW"
        /\ \A o \in EntryOids :
              /\ CountOf(orders, s, o) <= 1
              /\ CountOf(ledger.processedOrders, s, o) <= 1


\* The number of times a symbol occurs in a list of symbols
RECURSIVE Occurrences(_, _)
Occurrences(symbols, symbol) ==
    IF symbols = <<>> THEN 0
    ELSE (IF Head(symbols) = symbol THEN 1 ELSE 0)
         + Occurrences(Tail(symbols), symbol)

\* This step is a reconciliation cycle
IsPoll == polls' = polls + 1

\* A cycle that handles MANUAL_CLOSED for the symbol with auto-refollow on
C11_Handled(s) ==
    (IsPoll /\ options.autoRefollow /\ lastPoll'.classes[s] = "MANUAL_CLOSED")
    => /\ CountOf(ledger'.manualCloses, s, signal[s])
              = CountOf(ledger.manualCloses, s, signal[s]) + 1
       /\ Occurrences(lastPoll'.removed, s) = 1
       /\ ~ hasRecordOf(ledger', s)

\* A later cycle that finds a changed entry_order_id, not followed yet
C11_Refollowed(s) ==
    (/\ IsPoll
     /\ options.autoRefollow
     /\ signal[s] # NoOid
     /\ CountOf(orders, s, signal[s]) = 0
     /\ \E o \in EntryOids \ {signal[s]} : CountOf(ledger.manualCloses, s, o) > 0)
    => lastPoll'.classes[s] = "NEW"

\* C11: a MANUAL_CLOSED event handled with auto-refollow enabled appends a
\* ManualCloseRecord and calls removeProcessed(symbol) exactly once, leaving
\* no processed entry of the symbol; a later cycle in which the signal
\* reports a changed entry_order_id classifies the symbol NEW.
C11_AutoRefollow ==
    [][\A s \in FollowSymbols : C11_Handled(s) /\ C11_Refollowed(s)]_vars

\* A manual close of (BTC, 1) was recorded and the changed id 2 was then
\* classified NEW and followed
C11_Witness ==
    /\ options.autoRefollow
    /\ CountOf(ledger.manualCloses, "BTC", 1) = 1
    /\ signal["BTC"] = 2
    /\ lastPoll.classes["BTC"] = "NEW"
    /\ CountOf(orders, "BTC", 2) = 1
    /\ ~ hasProcessed(ledger, "BTC", 1)

\* The processed entries of one symbol, in ledger order
ProcessedOf(l, symbol) ==
    SelectSeq(l.processedOrders, LAMBDA r : r.symbol = symbol)

\* The number of records of a symbol in a collection
RecordsOf(records, symbol) ==
    Len(SelectSeq(records, LAMBDA r : r.symbol = symbol))

\* s is a prefix of t
IsPrefix(s, t) == Len(s) <= Len(t) /\ SubSeq(t, 1, Len(s)) = s

\* A cycle with auto-refollow disabled: what it does for one symbol
C21_Audited(s) ==
    (IsPoll /\ ~ options.autoRefollow)
    => /\ lastPoll'.classes[s] = "MANUAL_CLOSED"
          => /\ CountOf(ledger'.manualCloses, s, signal[s])
                    = CountOf(ledger.manualCloses, s, signal[s]) + 1
             /\ ProcessedOf(ledger', s) = ProcessedOf(ledger, s)
       /\ lastPoll'.profitMet[s]
          => /\ lastPoll'.classes[s] = "AGENT_CLOSED"
             /\ RecordsOf(ledger'.profitExits, s)
                    = RecordsOf(ledger.profitExits, s) + 1
             /\ ProcessedOf(ledger', s) = ProcessedOf(ledger, s)
       /\ lastPoll'.removed = <<>>
       /\ IsPrefix(ledger.processedOrders, ledger'.processedOrders)
       /\ (signal[s] # NoOid /\ CountOf(orders, s, signal[s]) > 0)
          => lastPoll'.classes[s] # "NEW"

ResetAfterClose(s) ==
    /\ signal[s] # NoOid
    /\ ~ hasRecordOf(ledger, s)
    /\ \/ CountOf(ledger.manualCloses, s, signal[s]) > 0
       \/ CountOf(ledger.profitExits, s, signal[s]) > 0

\* A cycle after a reset, the signal still reporting the same entry_order_id
C24_Rearmed(s) ==
    (IsPoll /\ options.autoRefollow /\ ResetAfterClose(s))
    => /\ lastPoll'.classes[s] # "NEW"
       /\ CountOf(orders', s, signal[s]) = CountOf(orders, s, signal[s])

\* C24: a ledger reset only re-arms detection for a future entry_order_id:
\* after removeProcessed(symbol) following a MANUAL_CLOSED or profit-exit
\* event with auto-refollow enabled, a later poll in which the signal still
\* reports the same entry_order_id does not classify the symbol NEW and
\* places no second order for that (symbol, entry_order_id).
C24_ResetRearmsFutureOid ==
    [][\A s \in FollowSymbols : C24_Rearmed(s)]_vars

\* removeProcessed(s) on the ledger of any reachable state: no processed
\* entry of s remains, everything else is as it was
C25_RemoveScoped ==
    \A s \in FollowSymbols :
        LET after == removeProcessed(ledger, s)
        IN  /\ ProcessedOf(after, s) = <<>>
            /\ \A t \in FollowSymbols \ {s} :
                  ProcessedOf(after, t) = ProcessedOf(ledger, t)
            /\ after.profitExits = ledger.profitExits
            /\ after.manualCloses = ledger.manualCloses

\* What a step does to the ledger: processed entries go only for the
\* symbols the auto-refollow controller reset in a cycle, and then all of
\* them; the event records only grow
C25_LedgerStep ==
    /\ IsPrefix(ledger.profitExits, ledger'.profitExits)
    /\ IsPrefix(ledger.manualCloses, ledger'.manualCloses)
    /\ IF IsPoll
       THEN /\ lastPoll'.removed # <<>> => options.autoRefollow
            /\ \A s \in FollowSymbols :
                  IF Occurrences(lastPoll'.removed, s) > 0
                  THEN /\ ProcessedOf(ledger', s) = <<>>
                       /\ lastPoll'.classes[s] \in {"AGENT_CLOSED", "MANUAL_CLOSED"}
                  ELSE IsPrefix(ProcessedOf(ledger, s), ProcessedOf(ledger', s))
       ELSE ledger' = ledger

\* C25: ledger removal is symbol-scoped and happens only in the auto-
\* refollow controller: removeProcessed(s) deletes every processed entry of
\* s and leaves the processed entries of all other symbols and all
\* profitExits and manualCloses records unchanged; no other operation of a
\* cycle removes a ledger entry, so profitExits and manualCloses only grow.
C25_RemovalSymbolScoped ==
    []C25_RemoveScoped /\ [][C25_LedgerStep]_vars

\* BTC was reset in a cycle that left the processed entry of ETH in place
C25_Witness ==
    /\ Occurrences(lastPoll.removed, "BTC") = 1
    /\ ~ hasRecordOf(ledger, "BTC")
    /\ hasProcessed(ledger, "ETH", 1)
    /\ CountOf(ledger.manualCloses, "BTC", 1) = 1

\* The class of a symbol in a cycle that runs no manual-close check
DisabledClass(s) ==
    IF signal[s] # NoOid /\ ~ hasProcessed(ledger, s, signal[s]) THEN "NEW"
    ELSE IF signal[s] = NoOid /\ hasRecordOf(ledger, s) THEN "AGENT_CLOSED"
    ELSE "UNCHANGED"

\* A cycle whose broker query failed: no manual close is detected or
\* recorded, NEW and AGENT_CLOSED are classified as without the check
C26_Isolated ==
    /\ ledger'.manualCloses = ledger.manualCloses
    /\ \A s \in FollowSymbols :
          /\ lastPoll'.classes[s] # "MANUAL_CLOSED"
          /\ lastPoll'.classes[s] = "NEW" <=> DisabledClass(s) = "NEW"
          /\ lastPoll'.classes[s] = "AGENT_CLOSED"
             <=> DisabledClass(s) = "AGENT_CLOSED"

============================================================================
